---- MODULE Spec2Model ----
(***************************************************************************)
(* drozoSearch: the reconcile protocol of the indexing coordinator         *)
(* (src/indexer/coordinator.rs), the walker thread that feeds it           *)
(* (src/indexer/walker.rs) and the transactional writer it drives          *)
(* (src/index/writer.rs) over a segment-structured index.                  *)
(*                                                                         *)
(* The index is a sequence of segments; a segment is the sequence of the   *)
(* documents of one commit, in the order they were added, each with its    *)
(* alive bit.  A delete-by-term clears the alive bit of every document of  *)
(* that file_path submitted before it; the document stays in its segment's *)
(* store until a merge.  The default merge policy merges no fewer than     *)
(* eight segments, which the runs explored here never produce, so segments *)
(* are never merged; a segment without alive documents is dropped at       *)
(* commit.                                                                 *)
(***************************************************************************)
EXTENDS Integers, Sequences, FiniteSets, TLC

\* ---------------------------------------------------------------- bounds
NumPaths == 2
MaxMtime == 2
MaxRuns == 3
MaxCommitInterval == 2
MaxFsChanges == 2
MaxFaults == 1
MaxQueryLen == 2
MaxLimit == 3
MaxHits == 4
MaxQueries == 3
MaxReports == 3

\* ------------------------------------------------------ program constants
ScanProgressEvery == 2000
WriteProgressEvery == 500
CountProgressEvery == 5000
\* content.rs is_binary_content: the bytes it inspects
HeadBytes == 8192
\* config.rs Config::default: max_file_size
DefaultMaxFileSize == 10485760

\* -------------------------------------------------------------- universe
\* The paths a walk can produce: the root directory "home" itself, which the
\* walk of a root yields first, and NumPaths entries below it
HomeDir == 1
Paths == 1..(NumPaths + 1)
Mtimes == 1..MaxMtime

\* A file of the directory home/.git
GitFile == NumPaths + 2

\* Everything on disk below "home", the root included
OnDisk == Paths \cup {GitFile}

\* The names of the directories between the root "home" and an entry
DirsAbove(p) == IF p = GitFile THEN {".git"} ELSE {}

\* A variant that skips no directory
NoSkipDirs == {}

\* walker.rs SKIP_DIRS, the names that occur in the modelled tree and two more
SKIP_DIRS == {".git", "node_modules", "target"}

\* walk_single_root, filter_entry: a directory whose name is in SKIP_DIRS is
\* not entered, so no entry below it is visited
Visited(p) == DirsAbove(p) \cap SKIP_DIRS = {}

\* fs[p] = NoFile: the path cannot be stat-ed (FileMetadata::from_path is None)
NoFile == 0

\* The entries the walk of a configured root visits.  "home" is the top root;
\* "sub" is entry 2 of it, configured as a root of its own.
Tree(root) == IF root = "home" THEN {p \in OnDisk : Visited(p)} ELSE {2}

\* coordinator.rs quick_count, the list `skip` of its filter_entry: the same
\* names as SKIP_DIRS, written out a second time
skip == {".git", "node_modules", "target"}

\* quick_count, filter_entry: a directory whose name is in `skip` is not entered
Counted(p) == DirsAbove(p) \cap skip = {}

\* The entries quick_count visits below a configured root
CountTree(root) == IF root = "home" THEN {p \in OnDisk : Counted(p)} ELSE {2}

\* Config.root_dirs: one root, or two roots of which the second lies in the first
RootChoices == {<<"home">>, <<"home", "sub">>}

VARIABLES
    fs,               \* the filesystem: path -> mtime, or NoFile
    root_dirs,        \* Config.root_dirs
    commit_interval,  \* Config.commit_interval
    segments,         \* the committed index
    pc,               \* where run_indexing is: "idle", "new_writer", "walk"
    runs,             \* reconcile runs ended so far
    existing,         \* run_indexing: path -> indexed mtime
    existing_count,
    estimated_total,
    files_scanned,
    files_added,
    files_updated,
    need_commit,
    pending,          \* IndexWriter.writer: operations submitted and not committed
    docs_since_commit,
    path_rx,          \* the walker -> coordinator channel
    w_root,           \* walker: index of the root being walked
    w_next,           \* walker: next entry of that root
    log,              \* what the coordinator did in this run, in order
    prior_segments,   \* the committed index when this run started
    prior_seen,       \* the paths the last run that ended Ready stat-ed
    stable,           \* runs ended Ready since the filesystem last changed
    fs_changes,       \* changes of the filesystem so far
    faults,           \* failures of the index library so far
    entry,            \* a walked path: its name, its metadata, the file behind it
    max_file_size,    \* Config.max_file_size
    doc_log,          \* what the coordinator did to index the entry, in order
    query,            \* search: query_str
    limit,            \* search: limit
    hits,             \* the documents matching the query, as the index ranks them
    calls,            \* the calls search has made to the index library, in order
    results,          \* the list search returned
    returned,         \* whether search has returned
    search_rx,        \* the UI -> search_thread channel of queries
    queries_sent,     \* the queries the UI has sent so far
    results_rx,       \* the search_thread -> UI channel of result vectors
    ui_results,       \* DrozoSearchApp.results: the query whose results are shown
    ui_pc,            \* where DrozoSearchApp::update is, or "closed"
    wk_pc,            \* where search_thread is
    wk_query,         \* search_thread: query
    wk_log,           \* the searches and sends of search_thread, in order
    progress_rx,      \* the coordinator -> UI channel of progress reports
    reports_sent,     \* the progress reports sent so far
    last_sent,        \* the progress report sent last
    displayed         \* DrozoSearchApp: files_indexed, estimated_total, index_status

vars == <<fs, root_dirs, commit_interval, segments, pc, runs, existing,
          existing_count, estimated_total, files_scanned, files_added,
          files_updated, need_commit, pending, docs_since_commit, path_rx,
          w_root, w_next, log, prior_segments, prior_seen, stable, fs_changes,
          faults, entry, max_file_size, doc_log, query, limit, hits, calls,
          results, returned, search_rx, queries_sent, results_rx, ui_results,
          ui_pc, wk_pc, wk_query, wk_log, progress_rx, reports_sent, last_sent,
          displayed>>

\* The variables of the step that indexes one entry
doc_vars == <<entry, max_file_size, doc_log>>

\* The variables of a call of SearchEngine::search
search_vars == <<query, limit, hits, calls, results, returned>>

\* The variables of the UI, of search_thread and of the channels between the
\* UI and the two background threads
app_vars == <<search_rx, queries_sent, results_rx, ui_results, ui_pc, wk_pc,
              wk_query, wk_log, progress_rx, reports_sent, last_sent, displayed>>

\* The variables of run_indexing and of the index it maintains
coordinator_vars ==
    <<fs, root_dirs, commit_interval, segments, pc, runs, existing,
      existing_count, estimated_total, files_scanned, files_added,
      files_updated, need_commit, pending, docs_since_commit, path_rx, w_root,
      w_next, log, prior_segments, prior_seen, stable, fs_changes, faults>>

\* ------------------------------------------------------------ the index
\* writer.rs add_file: the document built from a path and its metadata
Doc(p, m) == [file_path |-> p, modified |-> m, alive |-> TRUE]

\* SegmentReader::num_docs: the number of alive documents of a segment
num_docs(seg) == Cardinality({i \in DOMAIN seg : seg[i].alive})

\* Positions <<segment, doc>> of the live documents of an index
LiveIds(segs) ==
    {x \in UNION {{<<s, i>> : i \in DOMAIN segs[s]} : s \in DOMAIN segs} :
        segs[x[1]][x[2]].alive}

\* The live documents with file_path p
LiveOf(segs, p) == {x \in LiveIds(segs) : segs[x[1]][x[2]].file_path = p}

\* The set of file_path values of the live index
LivePaths(segs) == {segs[x[1]][x[2]].file_path : x \in LiveIds(segs)}

\* delete_term on one segment: clear the alive bit of the documents of p
KillIn(seg, p) ==
    [i \in DOMAIN seg |->
        IF seg[i].file_path = p THEN [seg[i] EXCEPT !.alive = FALSE] ELSE seg[i]]

\* The writer's commit: the pending operations take effect in the order they
\* were submitted; the added documents form one new segment.
RECURSIVE ApplyOps(_, _, _)
ApplyOps(segs, fresh, ops) ==
    IF ops = <<>>
    THEN SelectSeq(Append(segs, fresh), LAMBDA seg : num_docs(seg) > 0)
    ELSE LET o == Head(ops) IN
         IF o.op = "add"
         THEN ApplyOps(segs, Append(fresh, Doc(o.path, o.modified)), Tail(ops))
         ELSE ApplyOps([s \in DOMAIN segs |-> KillIn(segs[s], o.path)],
                       KillIn(fresh, o.path), Tail(ops))

Committed(segs, ops) == IF ops = <<>> THEN segs ELSE ApplyOps(segs, <<>>, ops)

\* ------------------------------------------------------------- the maps
\* A variant that leaves the entry in the map
MapKeep(m, p) == m

\* HashMap::remove
MapRemove(m, p) == [q \in DOMAIN m \ {p} |-> m[q]]
MapInsert(m, p, v) == [q \in DOMAIN m \cup {p} |-> IF q = p THEN v ELSE m[q]]
EmptyMap == [q \in {} |-> 0]

\* coordinator.rs load_existing_index: for every segment, the documents with
\* doc_id in 0..num_docs() are read from the store and inserted in the map.
RECURSIVE LoadSegment(_, _, _)
LoadSegment(seg, i, acc) ==
    IF i > num_docs(seg) THEN acc
    ELSE LoadSegment(seg, i + 1, MapInsert(acc, seg[i].file_path, seg[i].modified))

RECURSIVE LoadSegments(_, _, _)
LoadSegments(segs, s, acc) ==
    IF s > Len(segs) THEN acc
    ELSE LoadSegments(segs, s + 1, LoadSegment(segs[s], 1, acc))

load_existing_index(segs) == LoadSegments(segs, 1, EmptyMap)

\* ------------------------------------------------------------- progress
NoStats == <<>>
Report(fi, et, st, stats) ==
    [ev |-> "report", files_indexed |-> fi, estimated_total |-> et,
     status |-> st, stats |-> stats]

Max(a, b) == IF a >= b THEN a ELSE b

\* ascending sequence of the elements of a set of numbers
RECURSIVE SeqOf(_)
SeqOf(S) ==
    IF S = {} THEN <<>>
    ELSE LET m == CHOOSE x \in S : \A y \in S : x <= y
         IN <<m>> \o SeqOf(S \ {m})

\* coordinator.rs quick_count: the entries of every root, root by root
RECURSIVE quick_count(_, _)
quick_count(roots, files) ==
    IF roots = <<>> THEN 0
    ELSE Cardinality({p \in CountTree(Head(roots)) : files[p] # NoFile})
         + quick_count(Tail(roots), files)

\* A variant of quick_count that reports at every entry, quiet or not
CountingReportsLoud(count, quiet) ==
    [k \in 1..count |-> Report(0, k, "Counting", NoStats)]

\* the Counting reports of quick_count: one at every CountProgressEvery-th entry
CountingReports(count, quiet) ==
    IF quiet THEN <<>>
    ELSE [k \in 1..(count \div CountProgressEvery) |->
            Report(0, k * CountProgressEvery, "Counting", NoStats)]

\* ---------------------------------------------------------------- Init
\* run_indexing has not started: no index, no run, nothing in flight
CoordinatorIdle ==
    /\ segments = <<>>
    /\ pc = "idle"
    /\ runs = 0
    /\ existing = EmptyMap
    /\ existing_count = 0
    /\ estimated_total = 0
    /\ files_scanned = 0
    /\ files_added = 0
    /\ files_updated = 0
    /\ need_commit = FALSE
    /\ pending = <<>>
    /\ docs_since_commit = 0
    /\ path_rx = <<>>
    /\ w_root = 0
    /\ w_next = 0
    /\ log = <<>>
    /\ prior_segments = <<>>
    /\ prior_seen = {}
    /\ stable = 0
    /\ fs_changes = 0
    /\ faults = 0

\* No entry is being indexed
NoEntry == [name |-> <<>>]

DocIdle ==
    /\ entry = NoEntry
    /\ max_file_size = DefaultMaxFileSize
    /\ doc_log = <<>>

\* No search is under way
SearchIdle ==
    /\ query = <<>>
    /\ limit = 1
    /\ hits = <<>>
    /\ calls = <<>>
    /\ results = <<>>
    /\ returned = TRUE

\* DrozoSearchApp::new: what the UI shows before the first report
Starting == [files_indexed |-> 0, estimated_total |-> 0, status |-> "Starting"]

\* The UI and search_thread have just been created: empty channels, no query
AppIdle ==
    /\ search_rx = <<>>
    /\ queries_sent = 0
    /\ results_rx = <<>>
    /\ ui_results = 0
    /\ ui_pc = "results"
    /\ wk_pc = "recv"
    /\ wk_query = 0
    /\ wk_log = <<>>
    /\ progress_rx = <<>>
    /\ reports_sent = 0
    /\ last_sent = Starting
    /\ displayed = Starting

Init ==
    /\ fs \in [OnDisk -> Mtimes \cup {NoFile}]
    /\ fs[HomeDir] = 1
    /\ fs[GitFile] \in {NoFile, 1}
    /\ root_dirs \in RootChoices
    /\ commit_interval \in 1..MaxCommitInterval
    /\ CoordinatorIdle
    /\ DocIdle
    /\ SearchIdle
    /\ AppIdle

\* ------------------------------------------------------------ log events
StatEv(p, m, known) ==
    [ev |-> "stat", path |-> p, modified |-> m,
     indexed |-> IF known THEN existing[p] ELSE NoFile]
\* missing: the delete of a path left in the map after the walk
DeleteEv(p, missing) == [ev |-> "delete_term", path |-> p, missing |-> missing]
AddEv(p, m, ok) == [ev |-> "add_file", path |-> p, modified |-> m, ok |-> ok]
CommitEv(ok, periodic) == [ev |-> "commit", ok |-> ok, periodic |-> periodic]

DelOp(p) == [op |-> "del", path |-> p]
AddOp(p, m) == [op |-> "add", path |-> p, modified |-> m]

\* The last element of a non-empty sequence
Last(q) == q[Len(q)]

\* The run whose log this is has ended with a Ready report
EndedReady == pc = "idle" /\ log # <<>> /\ Last(log).status = "Ready"

\* The run whose log this is has ended with an Error report
EndedError == pc = "idle" /\ log # <<>> /\ Last(log).status = "Error"

\* The positions of the log that hold an event of kind k
Events(k) == {i \in DOMAIN log : log[i].ev = k}

\* The paths a run stat-ed successfully
StatOk(l) == {l[i].path : i \in {j \in DOMAIN l : l[j].ev = "stat" /\ l[j].modified # NoFile}}

\* The paths the walker produced in this run (each is stat-ed when it is received)
Walked == {log[i].path : i \in Events("stat")}

\* The locals of run_indexing and the writer go out of scope when the run ends;
\* the operations the writer never committed are lost with it.
EndRun(ready) ==
    /\ pc' = "idle"
    /\ runs' = runs + 1
    /\ existing' = EmptyMap
    /\ existing_count' = 0
    /\ estimated_total' = 0
    /\ files_scanned' = 0
    /\ files_added' = 0
    /\ files_updated' = 0
    /\ need_commit' = FALSE
    /\ pending' = <<>>
    /\ docs_since_commit' = 0
    /\ path_rx' = <<>>
    /\ w_root' = 0
    /\ w_next' = 0
    /\ stable' = IF ready /\ stable >= 0 THEN stable + 1 ELSE 0

\* ---------------------------------------------------------- environment
\* A file is created, touched or removed by some other program.
FsChange ==
    /\ fs_changes < MaxFsChanges
    /\ fs_changes' = fs_changes + 1
    /\ \E p \in Paths, m \in Mtimes \cup {NoFile} :
        /\ m # fs[p]
        /\ p # HomeDir
        /\ fs' = [fs EXCEPT ![p] = m]
    /\ stable' = IF pc = "idle" THEN 0 ELSE -1
    /\ UNCHANGED <<doc_vars, search_vars, app_vars, root_dirs, commit_interval, segments, pc, runs, existing,
                   existing_count, estimated_total, files_scanned, files_added,
                   files_updated, need_commit, pending, docs_since_commit,
                   path_rx, w_root, w_next, log, prior_segments, prior_seen, faults>>

\* ---------------------------------------------------------- coordinator
\* A variant that reports Ready whether or not the prior index held anything
EarlyReadyAlways(count) == <<Report(count, count, "Ready", NoStats)>>

\* The early Ready report: sent iff the map loaded from the prior index is not empty
EarlyReady(count) ==
    IF count > 0 THEN <<Report(count, count, "Ready", NoStats)>> ELSE <<>>

\* A variant that overlooks the deletions
HasChangesNoDeleted(added, updated, deleted) == added > 0 \/ updated > 0

\* types.rs IndexStats::has_changes
has_changes(added, updated, deleted) == added > 0 \/ updated > 0 \/ deleted > 0

\* run_indexing up to the pre-count: the first Counting report, the prior
\* state, the early Ready report, quick_count.
StartRun ==
    /\ pc = "idle"
    /\ runs < MaxRuns
    /\ LET loaded == load_existing_index(segments)
           count == Cardinality(DOMAIN loaded)
           had_existing == count > 0
           total == quick_count(root_dirs, fs)
       IN /\ existing' = loaded
          /\ existing_count' = count
          /\ estimated_total' = total
          /\ log' = <<Report(0, 0, "Counting", NoStats)>>
                    \o EarlyReady(count)
                    \o CountingReports(total, had_existing)
    /\ prior_segments' = segments
    /\ prior_seen' = IF EndedReady THEN StatOk(log) ELSE prior_seen
    /\ pc' = "new_writer"
    /\ UNCHANGED <<doc_vars, search_vars, app_vars, fs, root_dirs, commit_interval, segments, runs,
                   files_scanned, files_added, files_updated, need_commit,
                   pending, docs_since_commit, path_rx, w_root, w_next, stable,
                   fs_changes, faults>>

\* IndexWriter::new succeeds: the channel is created and the walker spawned.
OpenWriter ==
    /\ pc = "new_writer"
    /\ pc' = "walk"
    /\ pending' = <<>>
    /\ docs_since_commit' = 0
    /\ path_rx' = <<>>
    /\ w_root' = 1
    /\ w_next' = 1
    /\ files_scanned' = 0
    /\ files_added' = 0
    /\ files_updated' = 0
    /\ need_commit' = FALSE
    /\ UNCHANGED <<doc_vars, search_vars, app_vars, fs, root_dirs, commit_interval, segments, runs, existing,
                   existing_count, estimated_total, log, prior_segments, prior_seen, stable,
                   fs_changes, faults>>

\* IndexWriter::new fails: an Error report, and the run ends.
OpenWriterFails ==
    /\ pc = "new_writer"
    /\ faults < MaxFaults
    /\ faults' = faults + 1
    /\ log' = Append(log, Report(existing_count, existing_count, "Error", NoStats))
    /\ EndRun(FALSE)
    /\ UNCHANGED <<doc_vars, search_vars, app_vars, fs, root_dirs, commit_interval, segments, prior_segments, prior_seen,
                   fs_changes>>

\* walker.rs walk_paths: the walker thread looks at the next entry of the root
\* it is in and sends it if it is there.
WalkerStep ==
    /\ pc = "walk"
    /\ w_root >= 1
    /\ w_root <= Len(root_dirs)
    /\ path_rx' = IF w_next \in Tree(root_dirs[w_root]) /\ fs[w_next] # NoFile
                  THEN Append(path_rx, w_next)
                  ELSE path_rx
    /\ IF w_next < NumPaths + 2
       THEN w_next' = w_next + 1 /\ w_root' = w_root
       ELSE w_next' = 1 /\ w_root' = w_root + 1
    /\ UNCHANGED <<doc_vars, search_vars, app_vars, fs, root_dirs, commit_interval, segments, pc, runs, existing,
                   existing_count, estimated_total, files_scanned, files_added,
                   files_updated, need_commit, pending, docs_since_commit, log,
                   prior_segments, prior_seen, stable, fs_changes, faults>>

\* A variant that reports the pre-count as it was, without the max
IndexingReportPreCount(added) ==
    Report(existing_count + added, estimated_total, "Indexing", NoStats)

\* A variant whose reports of the walk keep the status of the pre-count
IndexingReportAsCounting(added) ==
    Report(existing_count + added,
           Max(estimated_total, existing_count + added), "Counting", NoStats)

\* The Indexing report of the walk
IndexingReport(added) ==
    Report(existing_count + added,
           Max(estimated_total, existing_count + added), "Indexing", NoStats)

\* Loop body, stat fails: the path leaves the map and nothing else happens.
HandlePathStatFails ==
    /\ pc = "walk"
    /\ path_rx # <<>>
    /\ LET p == Head(path_rx) IN
        /\ fs[p] = NoFile
        /\ existing' = MapRemove(existing, p)
        /\ log' = Append(log, StatEv(p, NoFile, p \in DOMAIN existing))
    /\ path_rx' = Tail(path_rx)
    /\ files_scanned' = files_scanned + 1
    /\ UNCHANGED <<doc_vars, search_vars, app_vars, fs, root_dirs, commit_interval, segments, pc, runs,
                   existing_count, estimated_total, files_added, files_updated,
                   need_commit, pending, docs_since_commit, w_root, w_next,
                   prior_segments, prior_seen, stable, fs_changes, faults>>

\* Loop body, the path is in the map with the mtime found on disk.
HandlePathUnchanged ==
    /\ pc = "walk"
    /\ path_rx # <<>>
    /\ LET p == Head(path_rx) IN
        /\ fs[p] # NoFile
        /\ p \in DOMAIN existing
        /\ existing[p] = fs[p]
        /\ existing' = MapRemove(existing, p)
        /\ log' = Append(log, StatEv(p, fs[p], TRUE))
                  \o (IF (files_scanned + 1) % ScanProgressEvery = 0
                      THEN <<IndexingReport(files_added)>>
                      ELSE <<>>)
    /\ path_rx' = Tail(path_rx)
    /\ files_scanned' = files_scanned + 1
    /\ UNCHANGED <<doc_vars, search_vars, app_vars, fs, root_dirs, commit_interval, segments, pc, runs,
                   existing_count, estimated_total, files_added, files_updated,
                   need_commit, pending, docs_since_commit, w_root, w_next,
                   prior_segments, prior_seen, stable, fs_changes, faults>>

\* A variant that waits for one document more than commit_interval
MaybeCommitAbove(docs, interval) == docs > interval

\* writer.rs IndexWriter::maybe_commit: whether it commits, given the counter
maybe_commit(docs, interval) == docs >= interval

\* Loop body, the path is new or its mtime differs: delete_term for a known
\* path, add_file, and after a successful add maybe_commit and the reports.
HandlePathWrite ==
    /\ pc = "walk"
    /\ path_rx # <<>>
    /\ \E add_ok, commit_ok \in BOOLEAN :
        LET p == Head(path_rx)
            m == fs[p]
            known == p \in DOMAIN existing
            added == IF known THEN files_added ELSE files_added + 1
            updated == IF known THEN files_updated + 1 ELSE files_updated
            deleted_first == IF known THEN Append(pending, DelOp(p)) ELSE pending
            submitted == IF add_ok THEN Append(deleted_first, AddOp(p, m))
                         ELSE deleted_first
            dirty == IF add_ok THEN docs_since_commit + 1 ELSE docs_since_commit
            due == add_ok /\ maybe_commit(dirty, commit_interval)
            done == due /\ commit_ok
            failed == (~add_ok) \/ (due /\ ~commit_ok)
        IN  /\ m # NoFile
            /\ ~(known /\ existing[p] = m)
            /\ failed => faults < MaxFaults
            /\ faults' = IF failed THEN faults + 1 ELSE faults
            /\ existing' = MapRemove(existing, p)
            /\ files_added' = added
            /\ files_updated' = updated
            /\ need_commit' = (need_commit \/ add_ok)
            /\ segments' = IF done THEN Committed(segments, submitted) ELSE segments
            /\ pending' = IF done THEN <<>> ELSE submitted
            /\ docs_since_commit' = IF done THEN 0 ELSE dirty
            /\ log' = Append(log, StatEv(p, m, known))
                      \o (IF known THEN <<DeleteEv(p, FALSE)>> ELSE <<>>)
                      \o <<AddEv(p, m, add_ok)>>
                      \o (IF due THEN <<CommitEv(commit_ok, TRUE)>> ELSE <<>>)
                      \o (IF done THEN <<IndexingReport(added)>> ELSE <<>>)
                      \o (IF add_ok /\ (added + updated) % WriteProgressEvery = 0
                          THEN <<IndexingReport(added)>>
                          ELSE <<>>)
    /\ path_rx' = Tail(path_rx)
    /\ files_scanned' = files_scanned + 1
    /\ UNCHANGED <<doc_vars, search_vars, app_vars, fs, root_dirs, commit_interval, pc, runs, existing_count,
                   estimated_total, w_root, w_next, prior_segments, prior_seen, stable,
                   fs_changes>>

\* A variant that leaves the loop as soon as the channel is empty
LoopEndsWhenEmpty == path_rx = <<>>

\* `for path in path_rx` ends when the channel is empty and the walker has
\* dropped its sender, which it does when walk_paths returns
LoopEnds == path_rx = <<>> /\ w_root > Len(root_dirs)

\* After the loop: the walker is joined, the paths left in the map are deleted,
\* the final commit is made if anything changed, and the final report is sent.
Finish ==
    /\ pc = "walk"
    /\ LoopEnds
    /\ \E commit_ok \in BOOLEAN :
        LET gone == SeqOf(DOMAIN existing)
            submitted == pending \o [i \in DOMAIN gone |-> DelOp(gone[i])]
            commit_needed == need_commit \/ gone # <<>>
            deleted == Len(gone)
            total_indexed == existing_count + files_added - deleted
            stats == <<files_added, files_updated, deleted>>
            failed == commit_needed /\ ~commit_ok
        IN  /\ failed => faults < MaxFaults
            /\ faults' = IF failed THEN faults + 1 ELSE faults
            /\ segments' = IF commit_needed /\ commit_ok
                           THEN Committed(segments, submitted)
                           ELSE segments
            /\ log' = log
                      \o [i \in DOMAIN gone |-> DeleteEv(gone[i], TRUE)]
                      \o (IF commit_needed
                          THEN <<Report(total_indexed, total_indexed, "Committing", NoStats),
                                 CommitEv(commit_ok, FALSE)>>
                          ELSE <<>>)
                      \o (IF failed
                          THEN <<Report(total_indexed, total_indexed, "Error", NoStats)>>
                          ELSE <<Report(total_indexed, total_indexed, "Ready",
                                        IF has_changes(files_added, files_updated, deleted)
                                        THEN stats ELSE NoStats)>>)
            /\ EndRun(~failed)
    /\ UNCHANGED <<doc_vars, search_vars, app_vars, fs, root_dirs, commit_interval, prior_segments, prior_seen, fs_changes>>

Next ==
    \/ FsChange
    \/ StartRun
    \/ OpenWriter
    \/ OpenWriterFails
    \/ WalkerStep
    \/ HandlePathStatFails
    \/ HandlePathUnchanged
    \/ HandlePathWrite
    \/ Finish

Spec == Init /\ [][Next]_vars

\* A variant in which the coordinator may stay in its loop for ever
NoCoordinatorStep == FALSE

\* One step of the coordinator's thread while a run is under way
CoordinatorStep ==
    \/ OpenWriter
    \/ OpenWriterFails
    \/ HandlePathStatFails
    \/ HandlePathUnchanged
    \/ HandlePathWrite
    \/ Finish

\* The runs commit after every document and the tree has its skipped directory
InitFair ==
    /\ Init
    /\ commit_interval = 1
    /\ fs[GitFile] = 1

\* The walker's thread and the coordinator's thread are both scheduled for as
\* long as they can take a step
SpecFair ==
    /\ InitFair
    /\ [][Next]_vars
    /\ WF_vars(WalkerStep)
    /\ WF_vars(CoordinatorStep)

\* ==================================================== indexing one entry
\* Text is a sequence of one-character strings.
UpperCase == <<"A", "B", "C", "D", "E", "F", "G", "H", "I", "J", "K", "L", "M",
               "N", "O", "P", "Q", "R", "S", "T", "U", "V", "W", "X", "Y", "Z">>
LowerCase == <<"a", "b", "c", "d", "e", "f", "g", "h", "i", "j", "k", "l", "m",
               "n", "o", "p", "q", "r", "s", "t", "u", "v", "w", "x", "y", "z">>

\* char::to_lowercase on the ASCII range
lower(c) ==
    IF \E i \in DOMAIN UpperCase : UpperCase[i] = c
    THEN LowerCase[CHOOSE i \in DOMAIN UpperCase : UpperCase[i] = c]
    ELSE c

\* str::to_lowercase
to_lowercase(s) == [i \in DOMAIN s |-> lower(s[i])]

\* The positions of the dots of a name
Dots(name) == {i \in DOMAIN name : name[i] = "."}

\* Path::extension: what follows the last dot of the file name; none when the
\* name has no dot or its only dot leads it
NoExtension == <<"no extension">>
extension(name) ==
    IF Dots(name) \ {1} = {} THEN NoExtension
    ELSE LET d == CHOOSE i \in Dots(name) : \A j \in Dots(name) : j <= i
         IN  SubSeq(name, d + 1, Len(name))

\* content.rs TEXT_EXTENSIONS, the entries the modelled names can carry
TEXT_EXTENSIONS == {<<"t", "x", "t">>, <<"m", "d">>, <<"r", "s">>}

\* content.rs is_text_file: the extensionless names it knows, those modelled
KnownTextNames == {<<"m", "a", "k", "e", "f", "i", "l", "e">>}

is_text_file(name) ==
    \/ /\ extension(name) # NoExtension
       /\ to_lowercase(extension(name)) \in TEXT_EXTENSIONS
    \/ to_lowercase(name) \in KnownTextNames

\* The file names of the entries
FileNames == {<<"a", ".", "t", "x", "t">>, <<"a", ".", "T", "X", "T">>,
              <<"a", ".", "b", "i", "n">>, <<"a">>,
              <<".", "t", "x", "t">>,
              <<"M", "a", "k", "e", "f", "i", "l", "e">>}

\* The sizes fs::metadata can report to read_content under a size limit
Sizes(max) == {0, 1, HeadBytes, HeadBytes + 1, max, max + 1}

\* The file behind a path when read_content looks at it: whether stat succeeds,
\* its length, the offset of its first NUL byte (0: none), whether all of it is
\* UTF-8, whether it can be opened and read
Files(max) ==
    {f \in [stat_ok : BOOLEAN, len : Sizes(max),
            nul_at : {0, 1, HeadBytes, HeadBytes + 1},
            utf8 : BOOLEAN, readable : BOOLEAN] : f.nul_at <= f.len}

\* The walked entries: the name, FileMetadata::from_path's is_dir, the file
Entries(max) == [name : FileNames, is_dir : BOOLEAN, file : Files(max)]

\* Config.max_file_size
MaxFileSizes == {HeadBytes, DefaultMaxFileSize}

\* A variant that looks for no NUL byte
IsBinaryOnlyOnError(f) == ~f.readable

\* content.rs is_binary_content: an open or read error counts as binary
is_binary_content(f) == ~f.readable \/ f.nul_at \in 1..HeadBytes

\* Option<String>: None, or the text read
NoContent == "None"
Text == "Some(text)"

\* content.rs read_content
read_content(name, f, max_size) ==
    IF ~f.stat_ok THEN NoContent
    ELSE IF f.len > max_size \/ f.len = 0 THEN NoContent
    ELSE IF ~is_text_file(name) THEN NoContent
    ELSE IF is_binary_content(f) THEN NoContent
    ELSE IF f.readable /\ f.utf8 THEN Text
    ELSE NoContent

ReadEv(result) == [ev |-> "read_content", result |-> result]

\* A variant that reads the content of directories too
ReadAlways(e, max_size) == <<ReadEv(read_content(e.name, e.file, max_size))>>

\* run_indexing, `let file_content = ...`: the calls of read_content it makes
ReadCalls(e, max_size) ==
    IF ~e.is_dir THEN <<ReadEv(read_content(e.name, e.file, max_size))>>
    ELSE <<>>

\* writer.rs add_file: the document built for an entry
Document(e, content) ==
    [file_name |-> e.name, is_dir |-> IF e.is_dir THEN 1 ELSE 0,
     content |-> content]

AddFileEv(doc, ok) == [ev |-> "add_file", doc |-> doc, ok |-> ok]

InitDoc ==
    /\ fs = [p \in OnDisk |-> NoFile]
    /\ root_dirs = <<"home">>
    /\ commit_interval = 1
    /\ CoordinatorIdle
    /\ max_file_size \in MaxFileSizes
    /\ entry \in Entries(max_file_size)
    /\ doc_log = <<>>
    /\ SearchIdle
    /\ AppIdle

\* run_indexing: the content is read unless the entry is a directory, and the
\* document is handed to the writer, which takes it or fails
AddEntry ==
    /\ doc_log = <<>>
    /\ \E add_ok \in BOOLEAN :
        LET reads == ReadCalls(entry, max_file_size)
            file_content == IF reads = <<>> THEN NoContent ELSE reads[1].result
        IN  doc_log' = reads \o <<AddFileEv(Document(entry, file_content), add_ok)>>
    /\ UNCHANGED <<entry, max_file_size>>
    /\ UNCHANGED <<coordinator_vars, search_vars, app_vars>>

\* The `for path in path_rx` loop takes the next path
NextEntry ==
    /\ doc_log # <<>>
    /\ entry' \in Entries(max_file_size)
    /\ doc_log' = <<>>
    /\ UNCHANGED max_file_size
    /\ UNCHANGED <<coordinator_vars, search_vars, app_vars>>

NextDoc ==
    \/ AddEntry
    \/ NextEntry

SpecDoc == InitDoc /\ [][NextDoc]_vars


\* ================================================================ search
Min(a, b) == IF a <= b THEN a ELSE b

\* The characters of the queries: a letter in both cases, a blank, a special one
QueryChars == {"a", "A", " ", "("}

\* The query strings
Queries == UNION {[1..n -> QueryChars] : n \in 0..MaxQueryLen}

\* The documents of the index a query can match: the stored fields search
\* reads, the BM25 score the index gives the document for the query, the age in
\* days and the number of path components that compute_rank derives, and
\* whether the document store can load it
Candidates ==
    {[file_path |-> 1, file_name |-> <<"a">>, bm25 |-> 30, age_days |-> 0,
      depth |-> 3, is_dir |-> FALSE, loads |-> TRUE],
     [file_path |-> 2, file_name |-> <<"A", ".", "b">>, bm25 |-> 30,
      age_days |-> 365, depth |-> 8, is_dir |-> FALSE, loads |-> TRUE],
     [file_path |-> 3, file_name |-> <<"b", "a">>, bm25 |-> 10, age_days |-> 7,
      depth |-> 3, is_dir |-> TRUE, loads |-> TRUE],
     [file_path |-> 4, file_name |-> <<"b">>, bm25 |-> 10, age_days |-> 0,
      depth |-> 3, is_dir |-> FALSE, loads |-> TRUE],
     [file_path |-> 5, file_name |-> <<"b">>, bm25 |-> 10, age_days |-> 0,
      depth |-> 3, is_dir |-> FALSE, loads |-> TRUE],
     [file_path |-> 6, file_name |-> <<"a">>, bm25 |-> 10, age_days |-> 0,
      depth |-> 3, is_dir |-> FALSE, loads |-> FALSE]}

\* The lists of matching documents: each document once, best BM25 first
HitLists ==
    {h \in UNION {[1..n -> Candidates] : n \in 0..MaxHits} :
        /\ \A i, j \in DOMAIN h : i # j => h[i] # h[j]
        /\ \A i, j \in DOMAIN h : i < j => h[i].bm25 >= h[j].bm25}

\* The file of scenario S2, hello.txt, as the one document of the index
HelloTxt ==
    [file_path |-> 7,
     file_name |-> <<"h", "e", "l", "l", "o", ".", "t", "x", "t">>,
     bm25 |-> 10, age_days |-> 0, depth |-> 3, is_dir |-> FALSE, loads |-> TRUE]

\* The queries of scenario S2: "hello" and "hello.txt"
HelloQueries == {<<"h", "e", "l", "l", "o">>,
                 <<"h", "e", "l", "l", "o", ".", "t", "x", "t">>}

\* Candidates at the ends of the ranges of the signals of compute_rank: one
\* whose name, or name stem, is "a" in either case, and one named "b"
RankCandidates ==
    [file_path : {1}, file_name : {<<"a">>, <<"A", ".", "b">>},
     bm25 : {0, 10, 1000000}, age_days : {0, 7, 36500}, depth : {2, 30},
     is_dir : BOOLEAN, loads : {TRUE}]
    \cup
    [file_path : {2}, file_name : {<<"b">>},
     bm25 : {0, 10, 1000000}, age_days : {0, 7, 36500}, depth : {2, 30},
     is_dir : BOOLEAN, loads : {TRUE}]

\* The lists of two such candidates, best BM25 first
RankHitLists ==
    {h \in [1..2 -> RankCandidates] :
        h[1].file_path # h[2].file_path /\ h[1].bm25 >= h[2].bm25}

\* A variant that takes only the empty string for a blank query
IsEmptyString(q) == q = <<>>

\* query_str.trim().is_empty()
trim_is_empty(q) == \A i \in DOMAIN q : q[i] = " "

\* The characters search escapes before it parses a query again
SpecialChars == {"+", "-", "&", "|", "!", "(", ")", "{", "}", "[", "]", "^",
                 "\"", "~", "*", "?", ":", "\\", "/"}

\* A variant that leaves the query as it is
NotEscaped(q) == q

\* search: the query with a backslash put before each special character
RECURSIVE escaped(_)
escaped(q) ==
    IF q = <<>> THEN <<>>
    ELSE (IF Head(q) \in SpecialChars THEN <<"\\", Head(q)>> ELSE <<Head(q)>>)
         \o escaped(Tail(q))

\* search: the number of candidates asked of the index
retrieve_limit(l) == Min(l * 3, 600)

\* TopDocs::with_limit(k): the first k of the matching documents
top_docs(h, k) == SubSeq(h, 1, Min(k, Len(h)))

\* str::starts_with
starts_with(hay, needle) ==
    Len(needle) <= Len(hay) /\ SubSeq(hay, 1, Len(needle)) = needle

\* A variant in which the name is its own stem
StemIsName(name) == name

\* A variant that looks for the needle at the start only
ContainsAtStart(hay, needle) == starts_with(hay, needle)

\* str::contains
contains(hay, needle) ==
    \E i \in 0..(Len(hay) - Len(needle)) :
        SubSeq(hay, i + 1, i + Len(needle)) = needle

\* compute_rank: the name without what follows its last dot (rsplit_once)
stem(name) ==
    IF Dots(name) = {} THEN name
    ELSE LET d == CHOOSE i \in Dots(name) : \A j \in Dots(name) : j <= i
         IN  SubSeq(name, 1, d - 1)

\* ln(age_hours / 24) in thousandths, for the modelled ages
LnDaysMilli(age_days) ==
    CASE age_days = 7 -> 1946
      [] age_days = 365 -> 5900
      [] age_days = 36500 -> 10505
      [] OTHER -> 0

\* reader.rs compute_rank, in thousandths
compute_rank(bm25, query_lower, file_name_lower, depth, age_days, is_dir) ==
    LET bm25_norm == (1000 * bm25) \div (bm25 + 10)
        exact_bonus == IF file_name_lower = query_lower THEN 1000
                       ELSE IF stem(file_name_lower) = query_lower THEN 800
                       ELSE 0
        starts_with_bonus ==
            IF exact_bonus = 0 /\ starts_with(file_name_lower, query_lower)
            THEN 500 ELSE 0
        contains_bonus ==
            IF /\ exact_bonus = 0
               /\ starts_with_bonus = 0
               /\ contains(file_name_lower, query_lower)
            THEN 300 ELSE 0
        recency == (1000 * 1000) \div (1000 + Max(0, LnDaysMilli(age_days)))
        depth_penalty == (1000 * 100) \div (100 + Max(0, depth - 3) * 8)
        type_bonus == IF is_dir THEN 0 ELSE 100
    IN  bm25_norm * 2
        + exact_bonus * 5
        + starts_with_bonus * 2
        + (contains_bonus * 15) \div 10
        + (recency * 8) \div 10
        + (depth_penalty * 4) \div 10
        + type_bonus

\* A variant that reports every match as one of the content
MatchTypeContent(file_name_lower, query_lower) == "Content"

\* search: the match type of a candidate
match_type(file_name_lower, query_lower) ==
    IF contains(file_name_lower, query_lower) THEN "FileName" ELSE "Content"

\* search: the SearchResult built from a candidate; cand records the place the
\* candidate had in the list the index returned
SearchResult(h, cand, query_lower) ==
    LET file_name_lower == to_lowercase(h.file_name)
    IN  [file_name |-> h.file_name,
         file_path |-> h.file_path,
         match_type |-> match_type(file_name_lower, query_lower),
         score |-> compute_rank(h.bm25, query_lower, file_name_lower, h.depth,
                                h.age_days, h.is_dir),
         is_dir |-> h.is_dir,
         cand |-> cand]

\* search: filter_map over the candidates; one that cannot be loaded is dropped
ranked(td, query_lower) ==
    LET pairs == [i \in 1..Len(td) |-> [cand |-> i, hit |-> td[i]]]
        kept == SelectSeq(pairs, LAMBDA c : c.hit.loads)
    IN  [k \in 1..Len(kept) |->
            SearchResult(kept[k].hit, kept[k].cand, query_lower)]

\* A variant that puts a result before the results of equal score
InsertBeforeEqual(sorted, r) ==
    LET k == Cardinality({i \in DOMAIN sorted : sorted[i].score > r.score})
    IN  SubSeq(sorted, 1, k) \o <<r>> \o SubSeq(sorted, k + 1, Len(sorted))

\* One step of the stable sort by descending score: r goes behind the results
\* that do not score less
InsertByScore(sorted, r) ==
    LET k == Cardinality({i \in DOMAIN sorted : sorted[i].score >= r.score})
    IN  SubSeq(sorted, 1, k) \o <<r>> \o SubSeq(sorted, k + 1, Len(sorted))

\* results.sort_by(|a, b| b.score.partial_cmp(&a.score)...)
RECURSIVE sort_by(_, _)
sort_by(rs, sorted) ==
    IF rs = <<>> THEN sorted
    ELSE sort_by(Tail(rs), InsertByScore(sorted, Head(rs)))

\* A variant that cuts nothing off
NotTruncated(rs, l) == rs

\* results.truncate(limit)
truncate(rs, l) == SubSeq(rs, 1, Min(l, Len(rs)))

ReaderCall(ok) == [call |-> "reader", ok |-> ok]
ParseCall(q, ok) == [call |-> "parse_query", arg |-> q, ok |-> ok]
SearchCall(k, ok) == [call |-> "search", limit |-> k, ok |-> ok]

\* search: parse_query, and parse_query of the escaped query if the first fails
ParseCalls(q, first_ok, retry_ok) ==
    IF first_ok THEN <<ParseCall(q, TRUE)>>
    ELSE <<ParseCall(q, FALSE), ParseCall(escaped(q), retry_ok)>>

InitSearch ==
    /\ fs = [p \in OnDisk |-> NoFile]
    /\ root_dirs = <<"home">>
    /\ commit_interval = 1
    /\ CoordinatorIdle
    /\ DocIdle
    /\ limit \in 1..MaxLimit
    /\ \/ query \in Queries /\ hits \in HitLists
       \/ query \in HelloQueries /\ hits = <<HelloTxt>>
       \/ query \in {<<"a">>, <<"A">>} /\ hits \in RankHitLists
    /\ calls = <<>>
    /\ results = <<>>
    /\ returned = FALSE
    /\ AppIdle

Return(cs, rs) ==
    /\ calls' = cs
    /\ results' = rs
    /\ returned' = TRUE
    /\ UNCHANGED <<query, limit, hits>>
    /\ UNCHANGED <<coordinator_vars, doc_vars, app_vars>>

\* search with a blank query
SearchBlank ==
    /\ ~returned
    /\ trim_is_empty(query)
    /\ Return(<<>>, <<>>)

\* search, the reader cannot be opened
SearchNoReader ==
    /\ ~returned
    /\ ~trim_is_empty(query)
    /\ Return(<<ReaderCall(FALSE)>>, <<>>)

\* search, the query does not parse, escaped or not
SearchNoParse ==
    /\ ~returned
    /\ ~trim_is_empty(query)
    /\ Return(<<ReaderCall(TRUE)>> \o ParseCalls(query, FALSE, FALSE), <<>>)

\* search, the index fails to run the query
SearchFails ==
    /\ ~returned
    /\ ~trim_is_empty(query)
    /\ \E first_ok \in BOOLEAN :
        Return(<<ReaderCall(TRUE)>> \o ParseCalls(query, first_ok, TRUE)
                   \o <<SearchCall(retrieve_limit(limit), FALSE)>>,
               <<>>)

\* search, the index returns its candidates
SearchOk ==
    /\ ~returned
    /\ ~trim_is_empty(query)
    /\ \E first_ok \in BOOLEAN :
        LET k == retrieve_limit(limit)
            query_lower == to_lowercase(query)
            found == ranked(top_docs(hits, k), query_lower)
        IN  Return(<<ReaderCall(TRUE)>> \o ParseCalls(query, first_ok, TRUE)
                       \o <<SearchCall(k, TRUE)>>,
                   truncate(sort_by(found, <<>>), limit))

NextSearch ==
    \/ SearchBlank
    \/ SearchNoReader
    \/ SearchNoParse
    \/ SearchFails
    \/ SearchOk

SpecSearch == InitSearch /\ [][NextSearch]_vars


\* ================================================= UI and search_thread
\* The i-th query the UI sends is named i; the result vector search_thread
\* sends for it is named i too.

\* The progress reports the coordinator can send
ProgressReports ==
    [files_indexed : 1..2, estimated_total : 2..3, status : {"Indexing", "Ready"}]

\* A variant of a channel that holds one message: sync_channel(1)
CanSendOne(chan) == Len(chan) < 1

\* mpsc::channel(): the channel is unbounded, a send never waits
CanSend(chan) == TRUE

\* Sender::send: the message is queued if the receiver exists, dropped if not
Sent(chan, msg, receiver_alive) ==
    IF receiver_alive THEN Append(chan, msg) ELSE chan

\* A variant that keeps the status shown
DisplayCounts(shown, progress) ==
    [files_indexed |-> progress.files_indexed,
     estimated_total |-> progress.estimated_total,
     status |-> shown.status]

\* update: the three fields copied from a progress report
Display(shown, progress) ==
    [files_indexed |-> progress.files_indexed,
     estimated_total |-> progress.estimated_total,
     status |-> progress.status]

\* A variant that keeps the query received first
KeepOlder(q, newer) == q

\* A variant that goes on with whichever of the two queries was sent earlier
Older(q, newer) == IF q <= newer THEN q ELSE newer

\* search_thread: `query = newer`
Newer(q, newer) == newer

SearchEv(q) == [ev |-> "search", query |-> q]
SendEv(q, ok) == [ev |-> "send", query |-> q, ok |-> ok]

InitApp ==
    /\ fs = [p \in OnDisk |-> NoFile]
    /\ root_dirs = <<"home">>
    /\ commit_interval = 1
    /\ CoordinatorIdle
    /\ DocIdle
    /\ SearchIdle
    /\ AppIdle

\* update: one round of `while let Ok(results) = self.results_rx.try_recv()`
UiRecvResults ==
    /\ ui_pc = "results"
    /\ results_rx # <<>>
    /\ ui_results' = Head(results_rx)
    /\ results_rx' = Tail(results_rx)
    /\ UNCHANGED <<search_rx, queries_sent, ui_pc, wk_pc, wk_query, wk_log,
                   progress_rx, reports_sent, last_sent, displayed>>
    /\ UNCHANGED <<coordinator_vars, doc_vars, search_vars>>

\* update: results_rx.try_recv() finds the channel empty
UiResultsDrained ==
    /\ ui_pc = "results"
    /\ results_rx = <<>>
    /\ ui_pc' = "progress"
    /\ UNCHANGED <<search_rx, queries_sent, results_rx, ui_results, wk_pc,
                   wk_query, wk_log, progress_rx, reports_sent, last_sent,
                   displayed>>
    /\ UNCHANGED <<coordinator_vars, doc_vars, search_vars>>

\* update: one round of `while let Ok(progress) = self.progress_rx.try_recv()`
UiRecvProgress ==
    /\ ui_pc = "progress"
    /\ progress_rx # <<>>
    /\ displayed' = Display(displayed, Head(progress_rx))
    /\ progress_rx' = Tail(progress_rx)
    /\ UNCHANGED <<search_rx, queries_sent, results_rx, ui_results, ui_pc,
                   wk_pc, wk_query, wk_log, reports_sent, last_sent>>
    /\ UNCHANGED <<coordinator_vars, doc_vars, search_vars>>

\* update: progress_rx.try_recv() finds the channel empty
UiProgressDrained ==
    /\ ui_pc = "progress"
    /\ progress_rx = <<>>
    /\ ui_pc' = "send"
    /\ UNCHANGED <<search_rx, queries_sent, results_rx, ui_results, wk_pc,
                   wk_query, wk_log, progress_rx, reports_sent, last_sent,
                   displayed>>
    /\ UNCHANGED <<coordinator_vars, doc_vars, search_vars>>

\* update: the debounced search sends the query typed since the last one
UiSend ==
    /\ ui_pc = "send"
    /\ queries_sent < MaxQueries
    /\ CanSend(search_rx)
    /\ search_rx' = Sent(search_rx, queries_sent + 1, wk_pc # "done")
    /\ queries_sent' = queries_sent + 1
    /\ ui_pc' = "results"
    /\ UNCHANGED <<results_rx, ui_results, wk_pc, wk_query, wk_log,
                   progress_rx, reports_sent, last_sent, displayed>>
    /\ UNCHANGED <<coordinator_vars, doc_vars, search_vars>>

\* update: no new query, or the debounce time has not passed
UiNoSend ==
    /\ ui_pc = "send"
    /\ ui_pc' = "results"
    /\ UNCHANGED <<search_rx, queries_sent, results_rx, ui_results, wk_pc,
                   wk_query, wk_log, progress_rx, reports_sent, last_sent,
                   displayed>>
    /\ UNCHANGED <<coordinator_vars, doc_vars, search_vars>>

\* The app is dropped between two frames: search_tx, results_rx and
\* progress_rx go, and what the two channels to the UI held goes with them
UiClose ==
    /\ ui_pc = "results"
    /\ ui_pc' = "closed"
    /\ results_rx' = <<>>
    /\ progress_rx' = <<>>
    /\ UNCHANGED <<search_rx, queries_sent, ui_results, wk_pc, wk_query,
                   wk_log, reports_sent, last_sent, displayed>>
    /\ UNCHANGED <<coordinator_vars, doc_vars, search_vars>>

\* search_thread: rx.recv() returns a query
WkRecv ==
    /\ wk_pc = "recv"
    /\ search_rx # <<>>
    /\ wk_query' = Head(search_rx)
    /\ search_rx' = Tail(search_rx)
    /\ wk_pc' = "drain"
    /\ UNCHANGED <<queries_sent, results_rx, ui_results, ui_pc, wk_log,
                   progress_rx, reports_sent, last_sent, displayed>>
    /\ UNCHANGED <<coordinator_vars, doc_vars, search_vars>>

\* search_thread: rx.recv() fails, the channel is empty and its sender is gone
WkExit ==
    /\ wk_pc = "recv"
    /\ search_rx = <<>>
    /\ ui_pc = "closed"
    /\ wk_pc' = "done"
    /\ UNCHANGED <<search_rx, queries_sent, results_rx, ui_results, ui_pc,
                   wk_query, wk_log, progress_rx, reports_sent, last_sent,
                   displayed>>
    /\ UNCHANGED <<coordinator_vars, doc_vars, search_vars>>

\* search_thread: one round of `while let Ok(newer) = rx.try_recv()`
WkTryRecv ==
    /\ wk_pc = "drain"
    /\ search_rx # <<>>
    /\ wk_query' = Newer(wk_query, Head(search_rx))
    /\ search_rx' = Tail(search_rx)
    /\ UNCHANGED <<queries_sent, results_rx, ui_results, ui_pc, wk_pc, wk_log,
                   progress_rx, reports_sent, last_sent, displayed>>
    /\ UNCHANGED <<coordinator_vars, doc_vars, search_vars>>

\* search_thread: rx.try_recv() finds nothing, engine.search runs on the query
WkSearch ==
    /\ wk_pc = "drain"
    /\ search_rx = <<>>
    /\ wk_log' = Append(wk_log, SearchEv(wk_query))
    /\ wk_pc' = "send"
    /\ UNCHANGED <<search_rx, queries_sent, results_rx, ui_results, ui_pc,
                   wk_query, progress_rx, reports_sent, last_sent, displayed>>
    /\ UNCHANGED <<coordinator_vars, doc_vars, search_vars>>

\* search_thread: tx.send(results)
WkSend ==
    /\ wk_pc = "send"
    /\ CanSend(results_rx)
    /\ results_rx' = Sent(results_rx, wk_query, ui_pc # "closed")
    /\ wk_log' = Append(wk_log, SendEv(wk_query, ui_pc # "closed"))
    /\ wk_pc' = "recv"
    /\ UNCHANGED <<search_rx, queries_sent, ui_results, ui_pc, wk_query,
                   progress_rx, reports_sent, last_sent, displayed>>
    /\ UNCHANGED <<coordinator_vars, doc_vars, search_vars>>

\* run_indexing: progress_tx.send(IndexProgress {..}), the result ignored
ProgressSend ==
    /\ reports_sent < MaxReports
    /\ CanSend(progress_rx)
    /\ \E r \in ProgressReports :
        /\ progress_rx' = Sent(progress_rx, r, ui_pc # "closed")
        /\ last_sent' = r
    /\ reports_sent' = reports_sent + 1
    /\ UNCHANGED <<search_rx, queries_sent, results_rx, ui_results, ui_pc,
                   wk_pc, wk_query, wk_log, displayed>>
    /\ UNCHANGED <<coordinator_vars, doc_vars, search_vars>>

NextApp ==
    \/ UiRecvResults
    \/ UiResultsDrained
    \/ UiRecvProgress
    \/ UiProgressDrained
    \/ UiSend
    \/ UiNoSend
    \/ UiClose
    \/ WkRecv
    \/ WkExit
    \/ WkTryRecv
    \/ WkSearch
    \/ WkSend
    \/ ProgressSend

SpecApp == InitApp /\ [][NextApp]_vars

\* One step of search_thread
WkStep == WkRecv \/ WkExit \/ WkTryRecv \/ WkSearch \/ WkSend

\* One step of a frame of the UI that is not a choice of the user
UiFrameStep ==
    \/ UiRecvResults
    \/ UiResultsDrained
    \/ UiRecvProgress
    \/ UiProgressDrained
    \/ UiNoSend

\* search_thread is scheduled for as long as it can take a step, and the UI
\* goes on repainting for as long as the app is open
SpecAppFair ==
    /\ InitApp
    /\ [][NextApp]_vars
    /\ WF_vars(WkStep)
    /\ WF_vars(UiFrameStep)


\* ================================================================ claims
\* The number of live documents of an index with file_path p
Copies(segs, p) == Cardinality(LiveOf(segs, p))

\* The writer operations of kind k this run submitted for path p
OpsFor(k, p) == {i \in Events(k) : log[i].path = p}

\* The stats of the final Ready report: <<added, updated, deleted>>, zeros for None
FinalStats == IF Last(log).stats = NoStats THEN <<0, 0, 0>> ELSE Last(log).stats

\* C1: in every committed state of the index no two live documents have the
\* same file_path.
C1_UniqueFilePath == \A p \in Paths : Copies(segments, p) <= 1

\* C2: after a run that ended with a Ready report, the file_path values of the
\* committed index are exactly the paths the walker produced and the run could
\* stat.  Stated for the runs in which no operation of the index library has
\* failed, where it fails all the same.
C2_IndexEqualsStatted ==
    (EndedReady /\ faults = 0) => LivePaths(segments) = StatOk(log)

\* The paths the most recent reconcile that ran to its Ready report saw as existing
SeenByLastReconcile == IF EndedReady THEN StatOk(log) ELSE prior_seen

\* C3: in every committed state, the periodic commits of a walk included, the
\* file_path values of the index are the paths the most recent full reconcile
\* saw as existing.
C3_CommittedEqualsLastSeen == LivePaths(segments) = SeenByLastReconcile

\* The positions of the log where a path was found with the mtime it is indexed with
SeenUnchanged ==
    {i \in Events("stat") : log[i].modified # NoFile /\ log[i].modified = log[i].indexed}

\* C4: a path the run observes with its on-disk mtime equal to the indexed
\* mtime gets no writer operation in that run, neither delete_term nor add_file.
C4_UnchangedNoWriterOp ==
    \A i \in SeenUnchanged :
        OpsFor("delete_term", log[i].path) \cup OpsFor("add_file", log[i].path) = {}

\* C5: the second of two reconciles run back-to-back on an unchanging filesystem
\* leaves the committed index as it was, reports Ready(None) with zero added,
\* updated and deleted, and commits nothing.  Stated for the runs in which no
\* operation of the index library has failed, where it fails all the same.
C5_SecondRunIsNoOp ==
    (EndedReady /\ stable >= 2 /\ faults = 0) =>
        /\ segments = prior_segments
        /\ Last(log).stats = NoStats
        /\ Events("commit") = {}

\* The paths with exactly one live document when the run started, and its mtime
IndexedOnce == {p \in Paths : Copies(prior_segments, p) = 1}
IndexedMtime(p) ==
    LET x == CHOOSE y \in LiveOf(prior_segments, p) : TRUE
    IN prior_segments[x[1]][x[2]].modified

\* The mtimes the run found on disk for p
Found(p) == {log[i].modified : i \in {j \in Events("stat") : log[j].path = p}}

\* C6: for a path in the index with mtime T, a reconcile that finds mtime T on
\* disk submits no writer operation for it; one that finds another mtime submits
\* exactly one delete_term and one add_file for it and counts one update.
C6_UpdateIsOneDeleteOneAdd ==
    EndedReady =>
        \A p \in IndexedOnce :
            /\ Found(p) = {IndexedMtime(p)} =>
                   OpsFor("delete_term", p) \cup OpsFor("add_file", p) = {}
            /\ (Found(p) # {} /\ Found(p) \cap {IndexedMtime(p), NoFile} = {}) =>
                   /\ Cardinality(OpsFor("delete_term", p)) = 1
                   /\ Cardinality(OpsFor("add_file", p)) = 1
            /\ FinalStats[2] =
                   Cardinality({q \in IndexedOnce :
                       Found(q) # {} /\ Found(q) \cap {IndexedMtime(q), NoFile} = {}})
               \/ IndexedOnce # LivePaths(prior_segments)

\* The delete_term operations of updated paths, and those paths
UpdateDeletes == {i \in Events("delete_term") : ~log[i].missing}

\* The paths this run updated and whose update a commit of this run has published
UpdatesCommitted ==
    {log[i].path : i \in {j \in UpdateDeletes :
        \E c \in Events("commit") : c > j /\ log[c].ok}}

\* C7: the delete_term and the add_file of an updated path are submitted in that
\* order with no commit between them, so no committed state holds two documents
\* with that file_path.
C7_DeleteThenAddOneBatch ==
    /\ \A i \in UpdateDeletes :
           /\ i < Len(log)
           /\ log[i + 1].ev = "add_file"
           /\ log[i + 1].path = log[i].path
    /\ \A p \in UpdatesCommitted : Copies(segments, p) <= 1

\* The paths of the prior index the walker did not produce in this run
Missing == LivePaths(prior_segments) \ Walked

\* C8: every path of the prior index the walker does not produce gets one
\* delete_term, the run commits, its document is gone from the index, and
\* stats.deleted is the number of such paths.
C8_MissingPathsDeleted ==
    EndedReady =>
        /\ \A p \in Missing :
               /\ Cardinality(OpsFor("delete_term", p)) = 1
               /\ \E c \in Events("commit") : log[c].ok /\ ~log[c].periodic
               /\ p \notin LivePaths(segments)
        /\ FinalStats[3] = Cardinality(Missing)

\* The paths of the prior index the walker produced and the run could not stat
StatFailed ==
    {p \in LivePaths(prior_segments) : Found(p) = {NoFile}}

\* C9: a path of the prior index the walker produces and whose stat fails is
\* treated as deleted: when the run has completed the index holds no document
\* for it.
C9_StatFailureDeletes ==
    EndedReady => \A p \in StatFailed : p \notin LivePaths(segments)

\* C10: when a commit fails, the final one or a periodic one, the run emits an
\* Error report and ends, and no Ready report follows the failure.
C10_CommitFailureEndsRun ==
    \A c \in Events("commit") :
        ~log[c].ok =>
            /\ \A r \in Events("report") : r > c => log[r].status # "Ready"
            /\ pc = "idle" => Last(log).status = "Error"

\* C11: a failed add_file leaves the counters as if the path had not been
\* walked: during the walk files_added + files_updated counts the documents
\* that were written, and nothing else.
C11_FailedAddNotCounted ==
    pc = "walk" =>
        files_added + files_updated =
            Cardinality({i \in Events("add_file") : log[i].ok})

\* C12: a run that does not end in Error ends with a Ready report that carries
\* the stats iff one of added, updated, deleted is not zero, with files_indexed =
\* prior_count + files_added - deleted and estimated_total = files_indexed.
C12_FinalReport ==
    [][(pc = "walk" /\ pc' = "idle" /\ Last(log').status # "Error") =>
        LET deleted == Cardinality(DOMAIN existing)
            report == Last(log')
        IN  /\ report.status = "Ready"
            /\ (files_added + files_updated + deleted > 0) =>
                   report.stats = <<files_added, files_updated, deleted>>
            /\ (files_added + files_updated + deleted = 0) =>
                   report.stats = NoStats
            /\ report.files_indexed = existing_count + files_added - deleted
            /\ report.estimated_total = report.files_indexed]_vars

\* A run has ended Ready with deletions as its only change
C12_Witness ==
    /\ EndedReady
    /\ Last(log).stats # NoStats
    /\ Last(log).stats[1] = 0
    /\ Last(log).stats[2] = 0
    /\ Last(log).stats[3] > 0

\* The run is past its pre-count and has not sent its final report
Running == pc \in {"new_writer", "walk"}

DocEvents(k) == {i \in DOMAIN doc_log : doc_log[i].ev = k}

\* C14: every document written with is_dir = 1 has no content, and read_content
\* is not called for an entry whose metadata says it is a directory.
C14_DirHasNoContent ==
    /\ \A i \in DocEvents("add_file") :
           doc_log[i].doc.is_dir = 1 => doc_log[i].doc.content = NoContent
    /\ entry.is_dir => DocEvents("read_content") = {}

\* A directory was written whose path read_content would have returned text for
C14_Witness ==
    /\ \E i \in DocEvents("add_file") :
           doc_log[i].ok /\ doc_log[i].doc.is_dir = 1
    /\ read_content(entry.name, entry.file, max_file_size) = Text

\* The conditions the claim lists for read_content to return text
Listed(e, max_size) ==
    /\ e.file.stat_ok
    /\ 0 < e.file.len
    /\ e.file.len <= max_size
    /\ is_text_file(e.name)
    /\ e.file.nul_at \notin 1..HeadBytes
    /\ e.file.utf8

\* C15 as stated: read_content returns text iff stat succeeds, 0 < size <=
\* max_file_size, is_text_file accepts the path, the first 8 KiB hold no NUL and
\* the file decodes as UTF-8.
C15_TextIffListed ==
    \A i \in DocEvents("read_content") :
        (doc_log[i].result = Text) <=> Listed(entry, max_file_size)

\* C15: a document carries content only if read_content returned text, which
\* happens iff the listed conditions hold and the file can be opened and read;
\* in every case the document is handed to the writer, with metadata only when
\* read_content returned none.
C15_ContentOnlyIfRead ==
    doc_log # <<>> =>
        /\ \A i \in DocEvents("read_content") :
               (doc_log[i].result = Text) <=>
                   (Listed(entry, max_file_size) /\ entry.file.readable)
        /\ Cardinality(DocEvents("add_file")) = 1
        /\ \A i \in DocEvents("add_file") :
               /\ doc_log[i].doc.file_name = entry.name
               /\ (doc_log[i].doc.content # NoContent) <=>
                      (\E r \in DocEvents("read_content") : doc_log[r].result = Text)

\* A .txt file with a NUL in its first bytes, readable and within the size
\* limit, was written with metadata only
C15_Witness ==
    /\ \E i \in DocEvents("add_file") :
           doc_log[i].ok /\ doc_log[i].doc.content = NoContent
    /\ ~entry.is_dir
    /\ entry.name = <<"a", ".", "t", "x", "t">>
    /\ entry.file.stat_ok /\ entry.file.readable /\ entry.file.utf8
    /\ entry.file.len = HeadBytes
    /\ entry.file.nul_at = 1

C17_SortedStable ==
    returned =>
        \A i, j \in DOMAIN results :
            i < j =>
                /\ results[i].score >= results[j].score
                /\ results[i].score = results[j].score =>
                       results[i].cand < results[j].cand

\* Two results of equal score were returned, and a result moved ahead of one
\* that the index had ranked before it
C17_Witness ==
    /\ returned
    /\ \E i, j \in DOMAIN results :
           i < j /\ results[i].score = results[j].score
    /\ \E i, j \in DOMAIN results :
           i < j /\ results[i].cand > results[j].cand

\* The query has a character and every character of it is a blank
WhitespaceOnly(q) == q # <<>> /\ \A i \in DOMAIN q : q[i] = " "

\* C18: for an empty or whitespace-only query search returns the empty list
\* and has made no call to the index: no reader, no parse, no search.
C18_BlankQueryNoCalls ==
    (returned /\ (query = <<>> \/ WhitespaceOnly(query))) =>
        results = <<>> /\ calls = <<>>

\* A whitespace-only query was answered while the index had matching documents
C18_Witness ==
    /\ returned
    /\ WhitespaceOnly(query)
    /\ hits # <<>>
    /\ results = <<>>

\* The calls of kind c that search made
Calls(c) == {i \in DOMAIN calls : calls[i].call = c}

\* The place of the i-th character of q in the escaped q
EscapedPos(q, i) == i + Cardinality({j \in 1..i : q[j] \in SpecialChars})

\* e is q with a backslash before every special character, and nothing else
BackslashEscaped(q, e) ==
    /\ Len(e) = EscapedPos(q, Len(q))
    /\ \A i \in DOMAIN q :
        /\ e[EscapedPos(q, i)] = q[i]
        /\ q[i] \in SpecialChars => e[EscapedPos(q, i) - 1] = "\\"

\* C19: when the parse of the query fails, search parses once more, the query
\* with every special character backslash-escaped, and returns the empty list
\* if that fails too; when the reader, both parses or the search fail, search
\* returns the empty list.
C19_FailuresReturnEmpty ==
    returned =>
        /\ Cardinality(Calls("parse_query")) <= 2
        /\ \A i \in Calls("parse_query") :
            /\ (i = 2) => calls[i].arg = query
            /\ (i = 2 /\ ~calls[i].ok) =>
                   /\ Len(calls) >= 3
                   /\ calls[3].call = "parse_query"
                   /\ BackslashEscaped(query, calls[3].arg)
            /\ (i = 3) => ~calls[2].ok
            /\ (i = 3 /\ ~calls[i].ok) => Len(calls) = 3
        /\ (\E i \in DOMAIN calls : ~calls[i].ok /\ i = Len(calls)) =>
               results = <<>>
        /\ DOMAIN results = 1..Len(results)

\* A query with a special character failed to parse, parsed once escaped, and
\* search returned results
C19_Witness ==
    /\ returned
    /\ \E i \in DOMAIN query : query[i] \in SpecialChars
    /\ \E i \in DOMAIN query : query[i] \notin SpecialChars
    /\ Len(calls) = 4
    /\ ~calls[2].ok
    /\ calls[3].ok
    /\ results # <<>>

\* The lower-cased name holds the lower-cased query at some offset
NameHoldsQuery(name, q) ==
    \E off \in 0..(Len(name) - Len(q)) :
        \A j \in DOMAIN q : lower(name[off + j]) = lower(q[j])

\* C20: every result has match_type FileName iff its lower-cased file name
\* contains the lower-cased query, and Content otherwise; never Metadata.
C20_MatchType ==
    returned =>
        \A i \in DOMAIN results :
            /\ results[i].match_type \in {"FileName", "Content"}
            /\ (results[i].match_type = "FileName") <=>
                   NameHoldsQuery(results[i].file_name, query)

\* A result whose name holds the query in another case and not at its start
\* is FileName, next to a result that is Content
C20_Witness ==
    /\ returned
    /\ query = <<"A">>
    /\ \E i \in DOMAIN results :
           /\ results[i].file_name = <<"b", "a">>
           /\ results[i].match_type = "FileName"
    /\ \E i \in DOMAIN results : results[i].match_type = "Content"

\* Search found the one file hello.txt for the query q and returned it
HelloReturned(q) ==
    /\ returned
    /\ hits = <<HelloTxt>>
    /\ query = q
    /\ Len(results) = 1

\* C21 as stated: with hello.txt as the one indexed file, the query "hello"
\* returns it with match_type Content and the query "hello.txt" with FileName.
C21_HelloIsContent ==
    /\ HelloReturned(<<"h", "e", "l", "l", "o">>) =>
           results[1].match_type = "Content"
    /\ HelloReturned(<<"h", "e", "l", "l", "o", ".", "t", "x", "t">>) =>
           results[1].match_type = "FileName"

\* C21: with hello.txt as the one indexed file, the query "hello" and the
\* query "hello.txt" both return it with match_type FileName.
C21_HelloIsFileName ==
    \A q \in HelloQueries :
        HelloReturned(q) =>
            /\ results[1].file_name = HelloTxt.file_name
            /\ results[1].match_type = "FileName"

\* The query "hello" returned hello.txt
C21_Witness == HelloReturned(<<"h", "e", "l", "l", "o">>)

\* The lower-cased name, or what precedes its last dot, is the lower-cased query
NameOrStemIsQuery(name, q) ==
    \/ to_lowercase(name) = to_lowercase(q)
    \/ \E d \in Dots(name) :
        /\ \A e \in Dots(name) : e <= d
        /\ to_lowercase(SubSeq(name, 1, d - 1)) = to_lowercase(q)

\* C22: a result whose name or name stem equals the query scores strictly
\* higher than, and stands before, every result whose name does not contain
\* the query.
C22_ExactBeatsNoMatch ==
    returned =>
        \A i, j \in DOMAIN results :
            (/\ NameOrStemIsQuery(results[i].file_name, query)
             /\ ~NameHoldsQuery(results[j].file_name, query)) =>
                /\ results[i].score > results[j].score
                /\ i < j

\* A stem match with every other signal at its worst was returned ahead of a
\* file named otherwise with every signal at its best
C22_Witness ==
    /\ returned
    /\ Len(results) = 2
    /\ hits[2].file_name = <<"A", ".", "b">>
    /\ hits[2].bm25 = 0 /\ hits[2].age_days = 36500
    /\ hits[2].depth = 30 /\ hits[2].is_dir
    /\ hits[1].file_name = <<"b">>
    /\ hits[1].bm25 = 1000000 /\ hits[1].age_days = 0
    /\ hits[1].depth = 2 /\ ~hits[1].is_dir
    /\ results[1].cand = 2

\* The events of kind k of search_thread
WkEvents(k) == {i \in DOMAIN wk_log : wk_log[i].ev = k}

\* The queries searched grow strictly, and each search is followed by exactly
\* one send, of the results of the query searched
OneSendPerSearch ==
    /\ \A i \in WkEvents("search") :
        /\ \A j \in WkEvents("search") :
               i < j => wk_log[i].query < wk_log[j].query
        /\ (i < Len(wk_log)) =>
               /\ wk_log[i + 1].ev = "send"
               /\ wk_log[i + 1].query = wk_log[i].query
        /\ (i = Len(wk_log)) => wk_pc = "send"
    /\ \A i \in WkEvents("send") : i > 1 /\ wk_log[i - 1].ev = "search"
    /\ wk_pc = "send" => (wk_log # <<>> /\ Last(wk_log) = SearchEv(wk_query))

\* C23: search_thread searches when it has emptied its channel, for the
\* newest query sent and for no other, so that a query taken from the channel
\* and replaced by a newer one is never searched; and each search is followed
\* by exactly one send, of the results of that query.
C23_Coalesces ==
    /\ []OneSendPerSearch
    /\ [][(wk_pc = "drain" /\ wk_pc' = "send") =>
            /\ search_rx = <<>>
            /\ wk_query = queries_sent
            /\ Last(wk_log') = SearchEv(queries_sent)]_vars

\* Three queries were sent, the first two were never searched and the result
\* vector of the third was sent
C23_Witness ==
    /\ queries_sent = 3
    /\ wk_log = <<SearchEv(3), SendEv(3, TRUE)>>

\* The coordinator has a report to send and the send can proceed
SendNeverBlocks == reports_sent < MaxReports => ENABLED ProgressSend

\* C24: the coordinator can send its next report whatever the channel holds
\* and whether or not the UI still exists; and when the UI has drained the
\* channel it shows the counts and the status of the report sent last.
C24_NeverBlocksShowsLatest ==
    /\ []SendNeverBlocks
    /\ [][(ui_pc = "progress" /\ ui_pc' = "send" /\ reports_sent > 0) =>
            /\ displayed.files_indexed = last_sent.files_indexed
            /\ displayed.estimated_total = last_sent.estimated_total
            /\ displayed.status = last_sent.status]_vars

\* The UI ended a drain after every report was sent
C24_Witness ==
    /\ ui_pc = "send"
    /\ reports_sent = MaxReports
    /\ displayed.status = last_sent.status
    /\ displayed # Starting

\* The one root is "home" and nothing lies below it; nothing changed, nothing failed
EmptyRoot ==
    /\ root_dirs = <<"home">>
    /\ \A p \in OnDisk \ {HomeDir} : fs[p] = NoFile
    /\ fs_changes = 0
    /\ faults = 0

\* C25: the reconcile of a configuration whose only root is an empty directory
\* writes no document, commits nothing and ends Ready(None).
C25_EmptyRootNoDocuments ==
    (EndedReady /\ EmptyRoot) =>
        /\ Events("add_file") = {}
        /\ Events("commit") = {}
        /\ Last(log).stats = NoStats
        /\ segments = <<>>

\* The entries that lie below a directory named .git
BelowGit == {p \in OnDisk : ".git" \in DirsAbove(p)}

SecondSightings ==
    {j \in Events("stat") :
        \E i \in Events("stat") : i < j /\ log[i].path = log[j].path}

\* C27: a path the walker produces twice in one walk is indexed once: its
\* second sighting is followed by no writer operation, a run adds it at most
\* once, and the index the run commits holds one document for it.
C27_TwiceSeenIndexedOnce ==
    \A j \in SecondSightings :
        /\ j < Len(log) => log[j + 1].ev \notin {"add_file", "delete_term"}
        /\ Cardinality(OpsFor("add_file", log[j].path)) <= 1
        /\ EndedReady => Copies(segments, log[j].path) <= 1

\* The report at position i is a final transition of the run: Committing,
\* Error, or the Ready report the run ends with
Final(i) ==
    \/ log[i].status \in {"Committing", "Error"}
    \/ (log[i].status = "Ready" /\ i = Len(log) /\ pc = "idle")

\* The reports sent before the walker is spawned come ahead of the first stat
BeforeWalk(i) == \A j \in Events("stat") : i < j

\* C28 as stated: every report that follows a Counting report and is not a
\* final transition has status Indexing.
C28_IndexingAfterCounting ==
    \A i \in Events("report") :
        ((\E j \in Events("report") : j < i /\ log[j].status = "Counting")
            /\ ~Final(i))
        => log[i].status = "Indexing"

\* C28: every report sent once the walk has begun and before the final
\* transition has status Indexing.  The reports ahead of the walk are the
\* opening Counting report, in an incremental run the early Ready(None) that
\* follows it, and in a fresh run the Counting reports of the pre-count.
C28_IndexingAfterPreCount ==
    \A i \in Events("report") :
        ~Final(i) =>
            IF BeforeWalk(i)
            THEN \/ log[i].status = "Counting" /\ log[i].files_indexed = 0
                                               /\ (i > 1 => LivePaths(prior_segments) = {})
                 \/ /\ i = 2
                    /\ log[i].status = "Ready"
                    /\ log[i].stats = NoStats
                    /\ LivePaths(prior_segments) # {}
            ELSE log[i].status = "Indexing"

\* An incremental run is in its walk: the early Ready report is out and an
\* Indexing report has followed it
C28_Witness ==
    /\ pc = "walk"
    /\ LivePaths(prior_segments) # {}
    /\ 2 \in Events("report")
    /\ log[2].status = "Ready"
    /\ \E i \in Events("report") : i > 2 /\ log[i].status = "Indexing"

\* The positions of the Counting reports of the run
CountingSent == {r \in Events("report") : log[r].status = "Counting"}

NotLower(i, j) ==
    /\ log[i].files_indexed <= log[j].files_indexed
    /\ log[i].estimated_total <= log[j].estimated_total

\* C30 as stated: over all the reports of a run, the final ones included,
\* neither count decreases, and files_indexed <= estimated_total in each.
C30_CountsNeverDecrease ==
    /\ \A i, j \in Events("report") : i < j => NotLower(i, j)
    /\ \A i \in Events("report") : log[i].files_indexed <= log[i].estimated_total

\* C30: over the reports of a run up to its final transition neither
\* files_indexed nor estimated_total decreases, and every report of the run has
\* files_indexed <= estimated_total; the reports of the final transition carry
\* files_indexed = estimated_total, which may be lower than what was reported
\* before.
C30_NoRegressBeforeFinal ==
    /\ \A i, j \in Events("report") :
           (i < j /\ ~Final(i) /\ ~Final(j)) => NotLower(i, j)
    /\ \A i \in Events("report") :
           /\ log[i].files_indexed <= log[i].estimated_total
           /\ Final(i) => log[i].files_indexed = log[i].estimated_total

\* An incremental run has sent two Indexing reports with different counts
C30_Witness ==
    /\ pc = "walk"
    /\ LivePaths(prior_segments) # {}
    /\ \E i, j \in Events("report") :
           /\ i < j
           /\ log[i].status = "Indexing"
           /\ log[j].status = "Indexing"
           /\ log[i].files_indexed < log[j].files_indexed

\* What a step of the run appends to the log
Appended == SubSeq(log', Len(log) + 1, Len(log'))

\* C31: maybe_commit commits iff docs_since_commit >= commit_interval; a
\* commit that succeeds publishes the pending operations, zeroes the counter
\* and maybe_commit returns true (the Indexing report follows); a commit that
\* fails leaves counter and index as they were; without a commit the counter
\* and the index are unchanged and no report follows.  The counter is raised
\* by a successful add_file only, never by delete_term.
C31_MaybeCommit ==
    [][(pc = "walk" /\ pc' = "walk" /\ Len(log') > Len(log)) =>
        LET new == Appended
            added == \E i \in DOMAIN new : new[i].ev = "add_file" /\ new[i].ok
            commits == {i \in DOMAIN new : new[i].ev = "commit"}
            dirty == docs_since_commit + (IF added THEN 1 ELSE 0)
        IN  /\ (commits # {}) <=> (added /\ dirty >= commit_interval)
            /\ \A c \in commits :
                   IF new[c].ok
                   THEN /\ docs_since_commit' = 0
                        /\ pending' = <<>>
                        /\ segments' # segments
                        /\ c < Len(new)
                        /\ new[c + 1].ev = "report"
                        /\ new[c + 1].status = "Indexing"
                   ELSE /\ docs_since_commit' = dirty
                        /\ segments' = segments
                        /\ pending' # <<>>
                        /\ c = Len(new)
            /\ commits = {} =>
                   /\ docs_since_commit' = dirty
                   /\ segments' = segments
                   /\ (files_added' + files_updated') % WriteProgressEvery # 0 =>
                          \A i \in DOMAIN new : new[i].ev # "report"]_vars

\* With commit_interval = 2 the second add of the walk, an update with its
\* delete_term, has been committed by maybe_commit
C31_Witness ==
    /\ pc = "walk"
    /\ commit_interval = 2
    /\ docs_since_commit = 0
    /\ \E d \in Events("delete_term"), c \in Events("commit") :
           d < c /\ log[c].ok /\ log[c].periodic

\* The positions of the log where the run submitted an operation to the
\* writer: a delete_term, or an add_file that succeeded
Submitted ==
    Events("delete_term") \cup {i \in Events("add_file") : log[i].ok}

\* C32: need_commit is set whenever the run has submitted a writer operation,
\* so every submitted operation is followed by a commit before the run reports
\* Ready; the final commit comes directly after a Committing report, and the
\* run sends a Committing report iff it submitted an operation.
C32_SubmittedIsCommitted ==
    /\ pc = "walk" => (Submitted # {} => need_commit)
    /\ EndedReady =>
        /\ \A i \in Submitted :
               \E c \in Events("commit") : c > i /\ log[c].ok
        /\ \A c \in Events("commit") :
               ~log[c].periodic =>
                   /\ log[c - 1].ev = "report"
                   /\ log[c - 1].status = "Committing"
        /\ (Submitted # {}) <=>
               (\E r \in Events("report") : log[r].status = "Committing")

\* The terminal reports in the log: an Error, or a Ready that is not the early
\* Ready(None) sent ahead of the pre-count
Terminal ==
    {r \in Events("report") :
        \/ log[r].status = "Error"
        \/ log[r].status = "Ready" /\ ~BeforeWalk(r)
        \/ log[r].status = "Ready" /\ pc = "idle" /\ r = Len(log)}

\* C33: with the walker and the coordinator scheduled fairly every run ends;
\* a run under way has sent no terminal report, a run that has ended has sent
\* one, as the last thing it did, and nothing is emitted after it.
C33_RunTerminates ==
    /\ Running ~> (pc = "idle")
    /\ [](Running => Terminal = {})
    /\ []((pc = "idle" /\ log # <<>>) => Terminal = {Len(log)})
    /\ [][(pc = "idle" /\ pc' = "idle") => log' = log]_vars

\* A run over two roots has ended after its walker went through both
C33_Witness ==
    /\ pc = "idle"
    /\ Len(root_dirs) = 2
    /\ Terminal = {Len(log)}
    /\ Cardinality(Events("stat")) >= 3

\* The modified values of the live documents of path p
LiveModified(segs, p) == {segs[x[1]][x[2]].modified : x \in LiveOf(segs, p)}

\* C34: after the prior state is loaded the map has exactly one entry, file_path
\* -> modified, for every live document of the committed index and none for a
\* deleted document, and prior_count is the number of live documents.
C34_ExistingIsLiveIndex ==
    pc = "new_writer" =>
        /\ DOMAIN existing = LivePaths(segments)
        /\ \A p \in DOMAIN existing : LiveModified(segments, p) = {existing[p]}
        /\ existing_count = Cardinality(LiveIds(segments))

\* The walker has gone through all its roots
WalkerDone == pc = "walk" /\ w_root > Len(root_dirs)

\* C35: the channel of paths is bounded and the walker blocks when it is full:
\* whatever the capacity, a walk longer than the capacity cannot be queued as
\* a whole, so the walker does not reach its end with two or more paths queued
\* while the coordinator has received none.
C35_WalkerBlocksWhenFull ==
    (WalkerDone /\ files_scanned = 0) => Len(path_rx) <= 1

\* The walker has ended, the coordinator has received all it produced, and the
\* filesystem has not changed since the run began
WalkConsumedUnchanged == WalkerDone /\ path_rx = <<>> /\ stable >= 0

\* C36: the pre-count and the walk apply the same ignore policy: on a
\* filesystem that does not change during the run, the estimated_total that
\* quick_count returned is the number of paths the coordinator has received
\* when the walk is over.
C36_CountEqualsWalk ==
    WalkConsumedUnchanged => estimated_total = files_scanned

\* A walk over two roots of a tree that has its .git directory is over
C36_Witness ==
    /\ WalkConsumedUnchanged
    /\ fs[GitFile] # NoFile
    /\ root_dirs = <<"home", "sub">>
    /\ files_scanned >= 3

\* C37: the files_indexed of the final Ready report is the number of live
\* documents of the committed index at the end of the run.
C37_FilesIndexedIsLiveCount ==
    EndedReady => Last(log).files_indexed = Cardinality(LiveIds(segments))

\* The paths a step deletes as missing from disk
DeletedAsMissing ==
    {Appended[i].path :
        i \in {j \in DOMAIN Appended :
                  Appended[j].ev = "delete_term" /\ Appended[j].missing}}

\* The paths the walker has yet to produce in this run, given where it is
ToBeProduced ==
    {p \in OnDisk :
        \E r \in DOMAIN root_dirs :
            /\ p \in Tree(root_dirs[r])
            /\ fs[p] # NoFile
            /\ (r > w_root \/ (r = w_root /\ p >= w_next))}

\* C38: the deletes of the paths missing from disk are submitted only when
\* the walker has finished and the coordinator has received every path it
\* produced: no path that is queued, is still to be produced, or was received
\* in this run is deleted as missing.
C38_DeletesAfterWalk ==
    [][(pc = "walk" /\ DeletedAsMissing # {}) =>
        /\ w_root > Len(root_dirs)
        /\ path_rx = <<>>
        /\ ToBeProduced = {}
        /\ DeletedAsMissing \cap Walked = {}
        /\ pc' = "idle"]_vars

\* A run that walked two paths or more has ended with the delete of a missing path
C38_Witness ==
    /\ pc = "idle"
    /\ Cardinality(Events("stat")) >= 2
    /\ \E d \in Events("delete_term") : log[d].missing

\* The map load_existing_index returned when this run began
Loaded == load_existing_index(prior_segments)

\* The file_path values of the documents in the store of an index, deleted
\* ones included
StoredPaths(segs) ==
    UNION {{segs[x][i].file_path : i \in DOMAIN segs[x]} : x \in DOMAIN segs}

\* C39: at every point of a run the map `existing` is what was loaded from the
\* prior index less the paths received so far, each leaving it once; so the
\* number of paths left, which becomes `deleted`, is at most prior_count, and
\* prior_count + files_added - deleted is not negative: the unsigned
\* subtraction does not underflow.
C39_NoUnderflow ==
    Running =>
        /\ existing_count = Cardinality(DOMAIN Loaded)
        /\ DOMAIN existing = DOMAIN Loaded \ Walked
        /\ \A p \in DOMAIN existing : existing[p] = Loaded[p]
        /\ DOMAIN existing \subseteq StoredPaths(prior_segments)
        /\ Cardinality(DOMAIN existing) <= existing_count
        /\ existing_count + files_added - Cardinality(DOMAIN existing) >= 0

\* An incremental run has received one of the loaded paths, twice, and has
\* another one left in the map
C39_Witness ==
    /\ pc = "walk"
    /\ existing_count >= 2
    /\ DOMAIN existing # {}
    /\ SecondSightings # {}

\* The queries search_thread has run engine.search on
Searched == {wk_log[i].query : i \in {j \in DOMAIN wk_log : wk_log[j].ev = "search"}}

\* The query whose results search_thread sent last, 0 if it has sent none
LastDelivered ==
    LET sends == {j \in DOMAIN wk_log : wk_log[j].ev = "send"}
    IN  IF sends = {} THEN 0
        ELSE wk_log[CHOOSE j \in sends : \A i \in sends : i <= j].query

====
